---- MODULE Spec2Model ----
(***************************************************************************)
(* DayBoard backend: the progressive income-tax estimator                  *)
(* (backend/internal/estimate/estimate.go), the recurring-charge detector  *)
(* and the transaction sync built on it (backend/internal/plaid/client.go, *)
(* backend/internal/store/store.go), and the demo-mode tax handler         *)
(* (backend/cmd/server/main.go).                                           *)
(*                                                                         *)
(* Money is in integer cents, rates in basis points.  Go's int is 64 bits  *)
(* on the supported builds, so no product below overflows in the program;  *)
(* MulDiv computes the same quotient without a wide intermediate product.  *)
(***************************************************************************)
EXTENDS Integers, Sequences, FiniteSets, TLC

VARIABLES
    taxTablesFederal,   \* rows of table tax_tables_federal
    taxTablesState,     \* rows of table tax_tables_state
    estReq,             \* <<>> or <<arguments of the last EstimateTaxes call>>
    estRes,             \* <<>> or <<what that call returned>>
    transactions,       \* the caller's slice handed to DetectRecurringTransactions
    detected,           \* TRUE once DetectRecurringTransactions has returned
    subscriptions,      \* the slice it returned
    heap,               \* the arrays allocated so far, an array's address its index
    demoRes,            \* <<>> or <<response of the demo-mode handler to estReq>>
    dbTransactions,     \* rows of table transactions, in insertion order
    dbSubscriptions,    \* rows of table subscriptions, in insertion order
    syncRuns,           \* runs of syncAccountsAndTransactions that have returned
    syncCalls,          \* the runs of syncAccountsAndTransactions: position and locals
    subsPosted,         \* requests POST /api/v1/subs handled
    estCall,            \* the call of EstimateTaxes under way: its position and locals
    tablesReplaced,     \* TRUE once another database client has replaced a tax table
    calls,              \* the invocations in progress, one record per goroutine
    frames              \* the local variables of each invocation

vars == <<taxTablesFederal, taxTablesState, estReq, estRes,
          estCall, tablesReplaced,
          transactions, detected, subscriptions, heap, demoRes,
          dbTransactions, dbSubscriptions, syncRuns,
          syncCalls, subsPosted,
          calls, frames>>

demoVars == <<demoRes>>
syncVars == <<dbTransactions, dbSubscriptions, syncRuns, syncCalls, subsPosted>>
callVars == <<calls, frames>>

\* No request has reached the demo-mode handler.
NoDemo == demoRes = <<>>

\* No sync has run: both tables are empty.
NoSync ==
    /\ dbTransactions = <<>>
    /\ dbSubscriptions = <<>>
    /\ syncRuns = 0
    /\ syncCalls = <<>>
    /\ subsPosted = 0

\* No goroutine is running a call.
NoCalls == calls = <<>> /\ frames = <<>>

(***************************************************************************)
(* Bounds of the model.                                                    *)
(***************************************************************************)
MaxIncome == 30
MaxTermWeeks == 4
MaxTxns == 3
MaxPairTxns == 4
MaxSyncTxns == 4
MaxSyncRuns == 2
MaxSubsPosted == 1
MaxCalls == 2

(***************************************************************************)
(* Go integer arithmetic.                                                  *)
(***************************************************************************)
\* Go's / on ints truncates toward zero.
TruncDiv(a, b) == IF a >= 0 THEN a \div b ELSE -((-a) \div b)

\* a * b / d as Go evaluates it (product first, then truncating division),
\* for b >= 0 and d > 0, split so that no intermediate exceeds 32 bits.
MulDiv(a, b, d) ==
    LET m == IF a >= 0 THEN a ELSE -a
        q == (m \div d) * b + ((m % d) * b) \div d
    IN IF a >= 0 THEN q ELSE -q

minAlwaysSecond(a, b) == b

min(a, b) == IF a < b THEN a ELSE b

(***************************************************************************)
(* The bracket tables and the queries EstimateTaxes runs on them.          *)
(* tax_tables_federal and tax_tables_state have no key and no unique       *)
(* constraint (migrations/0001_create_tables.sql:93-110): a table is the   *)
(* sequence of its rows, a row as many times as it was inserted.           *)
(***************************************************************************)
FedRow(y, lo, hi, r, sd) ==
    [year |-> y, low |-> lo, high |-> hi, rate |-> r, std |-> sd]

StateRow(s, y, lo, hi, r) ==
    [state |-> s, year |-> y, low |-> lo, high |-> hi, rate |-> r]

\* SELECT bracket_low, bracket_high, rate_bps: the columns of a row the
\* bracket queries return.
Bracket(r) == [low |-> r.low, high |-> r.high, rate |-> r.rate]

\* ORDER BY bracket_low ASC: the sequences the query can return, each row as
\* often as the table holds it, bracket_low never decreasing; the order of
\* rows with equal bracket_low is left to the database engine.
OrderByLow(rows) ==
    LET n == Len(rows)
        arrangements ==
            {p \in [1 .. n -> 1 .. n] :
                /\ \A i, j \in 1 .. n : i # j => p[i] # p[j]
                /\ \A i \in 1 .. n - 1 : rows[p[i]].low <= rows[p[i + 1]].low}
    IN {[i \in 1 .. n |-> Bracket(rows[p[i]])] : p \in arrangements}

\* WHERE year = $1 on tax_tables_federal.
FederalRows(fed, year) == SelectSeq(fed, LAMBDA r : r.year = year)

\* WHERE state = $1 AND year = $2 on tax_tables_state.
StateRows(st, year, state) ==
    SelectSeq(st, LAMBDA r : r.year = year /\ r.state = state)

\* SELECT DISTINCT std_deduction_single ... WHERE year = $1 LIMIT 1: any one
\* of the distinct values the year's rows carry; no value when it has no row.
StdDeductionSingle(fed, year) ==
    LET rows == FederalRows(fed, year)
    IN {rows[i].std : i \in 1 .. Len(rows)}

\* The results the federal bracket query can return.
FederalBrackets(fed, year) == OrderByLow(FederalRows(fed, year))

\* The results the state bracket query can return.
StateBrackets(st, year, state) == OrderByLow(StateRows(st, year, state))

(***************************************************************************)
(* EstimateTaxes, estimate.go:26-136.                                      *)
(***************************************************************************)
\* An error is the sequence of the parts of its message; <<>> is a nil error.
ErrMarried == <<"married filing jointly not yet supported">>
ErrStdDeduction == <<"failed to fetch std deduction: ", "sql: no rows in result set">>
ErrUnsupported(filingStatus) == <<"unsupported filing status: ", filingStatus>>

FilingStatusErrorFallsBackToSingle(filingStatus) ==
    IF filingStatus = "married" THEN ErrMarried ELSE <<>>

FilingStatusErrorMarriedAsUnknown(filingStatus) ==
    IF filingStatus = "single" THEN <<>>
    ELSE ErrUnsupported(filingStatus)

\* The switch on filingStatus: the nil error when the call goes on (the
\* "single" case), the error returned when the call is rejected there.
FilingStatusError(filingStatus) ==
    IF filingStatus = "single" THEN <<>>
    ELSE IF filingStatus = "married" THEN ErrMarried
    ELSE ErrUnsupported(filingStatus)

TaxableIncomeSwapped(incomeCents, stdDeduction) ==
    IF stdDeduction - incomeCents < 0 THEN 0 ELSE stdDeduction - incomeCents

TaxableIncomeNoClamp(incomeCents, stdDeduction) == incomeCents - stdDeduction

TaxableIncome(incomeCents, stdDeduction) ==
    IF incomeCents - stdDeduction < 0 THEN 0 ELSE incomeCents - stdDeduction

UpperBoundNoSentinel(high, taxableIncome) == high

\* zero high implies no upper bound (top bracket)
UpperBound(high, taxableIncome) == IF high = 0 THEN taxableIncome ELSE high

AccumulateOverwrites(tax, segment, rateBps) == MulDiv(segment, rateBps, 10000)

\* federalTax += segment * rateBps / 10000
Accumulate(tax, segment, rateBps) == tax + MulDiv(segment, rateBps, 10000)

\* The loop over the rows of a bracket query, from row i on.
RECURSIVE WalkFromNoBreak(_, _, _, _, _, _)
WalkFromNoBreak(rows, i, taxableIncome, remaining, tax, segments) ==
    IF i > Len(rows)
    THEN [tax |-> tax, remaining |-> remaining, segments |-> segments]
    ELSE LET upperBound == UpperBound(rows[i].high, taxableIncome)
             segment == min(remaining, upperBound - rows[i].low)
         IN WalkFromNoBreak(rows, i + 1, taxableIncome, remaining - segment,
                            Accumulate(tax, segment, rows[i].rate),
                            Append(segments, segment))

RECURSIVE WalkFrom(_, _, _, _, _, _)
WalkFrom(rows, i, taxableIncome, remaining, tax, segments) ==
    IF i > Len(rows) \/ remaining <= 0
    THEN [tax |-> tax, remaining |-> remaining, segments |-> segments]
    ELSE LET upperBound == UpperBound(rows[i].high, taxableIncome)
             segment == min(remaining, upperBound - rows[i].low)
         IN WalkFrom(rows, i + 1, taxableIncome, remaining - segment,
                     Accumulate(tax, segment, rows[i].rate),
                     Append(segments, segment))

BracketWalk(rows, taxableIncome) ==
    WalkFrom(rows, 1, taxableIncome, taxableIncome, 0, <<>>)

StateWalkStartAfterFederal(taxableIncome, federalRemaining) == federalRemaining

\* remaining = taxableIncome, before the loop over the state's rows.
StateWalkStart(taxableIncome, federalRemaining) == taxableIncome

FicaTaxWrongScale(incomeCents) == MulDiv(incomeCents, 765, 1000)

\* ficaTax := incomeCents * 765 / 10000
FicaTax(incomeCents) == MulDiv(incomeCents, 765, 10000)

ChecksDefaultWeekly(payFreq, termWeeks) ==
    IF payFreq = "weekly" THEN termWeeks
    ELSE IF payFreq = "biweekly" THEN TruncDiv(termWeeks, 2)
    ELSE IF payFreq = "monthly" THEN TruncDiv(termWeeks, 4)
    ELSE termWeeks

\* Number of paychecks in the term.
Checks(payFreq, termWeeks) ==
    IF payFreq = "weekly" THEN termWeeks
    ELSE IF payFreq = "biweekly" THEN TruncDiv(termWeeks, 2)
    ELSE IF payFreq = "monthly" THEN TruncDiv(termWeeks, 4)
    ELSE TruncDiv(termWeeks, 2)

NetAnnualAddsTax(incomeCents, totalTax) == incomeCents + totalTax

\* netAnnual := incomeCents - totalTax
NetAnnual(incomeCents, totalTax) == incomeCents - totalTax

PerPayWholeNetWithoutChecks(netAnnual, checks) ==
    IF checks > 0 THEN TruncDiv(netAnnual, checks) ELSE netAnnual

\* Net per paycheck. Avoid division by zero.
PerPay(netAnnual, checks) ==
    IF checks > 0 THEN TruncDiv(netAnnual, checks) ELSE 0

\* The divisors of the divisions by the paycheck count that are executed.
PerPayDivisors(checks) == IF checks > 0 THEN <<checks>> ELSE <<>>

\* What a rejected call returns: a nil result and the error.  queries counts
\* the statements sent to the database before the return.
Rejected(e, n) == [err |-> e, result |-> <<>>, locals |-> <<>>, queries |-> n]

\* The local variables of a call before its first query, and where the call
\* is: "idle" (no call under way), or waiting on the database for the
\* "deduction", the "federal" brackets or the "state" brackets.
NoLocals ==
    [pc |-> "idle", stdDeduction |-> 0, taxableIncome |-> 0,
     federalRows |-> <<>>, federalTax |-> 0, federalSegments |-> <<>>,
     federalRemaining |-> 0,
     stateRows |-> <<>>, stateTax |-> 0, stateSegments |-> <<>>,
     queries |-> 0]

\* estimate.go:31-45: the deduction query has answered stdDeduction.
AfterDeduction(l, incomeCents, stdDeduction) ==
    [l EXCEPT !.stdDeduction = stdDeduction,
              !.taxableIncome = TaxableIncome(incomeCents, stdDeduction),
              !.queries = 1]

\* estimate.go:48-75: the federal bracket query has answered rows; the walk.
AfterFederal(l, rows) ==
    LET walk == BracketWalk(rows, l.taxableIncome)
    IN [l EXCEPT !.federalRows = rows,
                 !.federalTax = walk.tax,
                 !.federalSegments = walk.segments,
                 !.federalRemaining = walk.remaining,
                 !.queries = 2]

\* estimate.go:79-103: the state bracket query has answered rows; the walk.
AfterState(l, rows) ==
    LET walk == WalkFrom(rows, 1, l.taxableIncome,
                         StateWalkStart(l.taxableIncome, l.federalRemaining),
                         0, <<>>)
    IN [l EXCEPT !.stateRows = rows,
                 !.stateTax = walk.tax,
                 !.stateSegments = walk.segments,
                 !.queries = 3]

\* estimate.go:106-136: FICA, the paychecks, the net amounts, the result.
Finish(l, incomeCents, payFreq, termWeeks) ==
    LET ficaTax == FicaTax(incomeCents)
        checks == Checks(payFreq, termWeeks)
        totalTax == l.federalTax + l.stateTax + ficaTax
        netAnnual == NetAnnual(incomeCents, totalTax)
    IN [err |-> <<>>,
        result |-> <<[FederalCents |-> l.federalTax,
                      StateCents |-> l.stateTax,
                      FicaCents |-> ficaTax,
                      PerPaycheckNetCents |-> PerPay(netAnnual, checks),
                      TermNetCents |-> netAnnual]>>,
        locals |-> <<[stdDeduction |-> l.stdDeduction,
                      taxableIncome |-> l.taxableIncome,
                      federalRows |-> l.federalRows,
                      federalSegments |-> l.federalSegments,
                      federalRemaining |-> l.federalRemaining,
                      stateRows |-> l.stateRows,
                      stateSegments |-> l.stateSegments,
                      checks |-> checks,
                      divisors |-> PerPayDivisors(checks),
                      netAnnual |-> netAnnual]>>,
        queries |-> l.queries]

\* What EstimateTaxes returns when its queries answer stdDeduction,
\* federalRows and (for a state given) stateRows.
Computed(stdDeduction, federalRows, stateRows, incomeCents, state, payFreq, termWeeks) ==
    LET deducted == AfterDeduction(NoLocals, incomeCents, stdDeduction)
        federal == AfterFederal(deducted, federalRows)
        walked == IF state # "" THEN AfterState(federal, stateRows) ELSE federal
    IN Finish(walked, incomeCents, payFreq, termWeeks)

\* The outcomes EstimateTaxes can return for the arguments when the tables
\* do not change during the call: LIMIT 1 may pick any of several distinct
\* deductions, ORDER BY any order of rows with equal bracket_low.
EstimateTaxes(fed, st, incomeCents, state, filingStatus, year, payFreq, termWeeks) ==
    IF FilingStatusError(filingStatus) # <<>>
    THEN {Rejected(FilingStatusError(filingStatus), 0)}
    ELSE IF StdDeductionSingle(fed, year) = {}
    THEN {Rejected(ErrStdDeduction, 1)}
    ELSE {Computed(sd, fr, sr, incomeCents, state, payFreq, termWeeks) :
              sd \in StdDeductionSingle(fed, year),
              fr \in FederalBrackets(fed, year),
              sr \in IF state # "" THEN StateBrackets(st, year, state)
                     ELSE {<<>>}}

estVars == <<estCall, tablesReplaced>>

\* No call of EstimateTaxes is under way and the tables are as loaded.
NoEstimate == estCall = NoLocals /\ tablesReplaced = FALSE
(***************************************************************************)
(* The data the estimator is exercised on.                                 *)
(***************************************************************************)
Years == {2024, 2025}

\* One unbounded bracket at 22%: with the deduction of 13,850.00 for 2024,
\* with a deduction of 3 cents for 2025.
FedFlat == <<FedRow(2024, 0, 0, 2200, 1385000), FedRow(2025, 0, 0, 2200, 3)>>

\* Three progressive brackets, deduction of 5 cents.
FedThree == <<FedRow(2024, 0, 10, 1000, 5), FedRow(2024, 10, 25, 1200, 5),
              FedRow(2024, 25, 0, 2200, 5)>>

\* Two brackets, no deduction.
FedTwo == <<FedRow(2024, 0, 7, 3000, 0), FedRow(2024, 7, 0, 3700, 0)>>

\* A year loaded carelessly: two rows with the same bracket_low and
\* different deductions, the first of them inserted twice.
FedTied == <<FedRow(2025, 0, 10, 1000, 0), FedRow(2025, 0, 0, 2000, 2),
             FedRow(2025, 0, 10, 1000, 0)>>

FederalTables == {FedFlat, FedThree, FedTwo \o FedTied}

StateFlat == <<StateRow("CA", 2024, 0, 0, 500)>>

StateTwo == <<StateRow("CA", 2024, 0, 8, 2500), StateRow("CA", 2024, 8, 0, 930)>>

StateTables == {StateFlat, StateTwo}

Incomes == (0 .. MaxIncome) \cup {5200000}
States == {"", "CA", "TX"}
FilingStatuses == {"single", "married", "head_of_household"}
PayFreqs == {"weekly", "biweekly", "monthly", "semimonthly", ""}
TermWeeks == (0 .. MaxTermWeeks) \cup {12}

Request(incomeCents, state, filingStatus, year, payFreq, termWeeks) ==
    [incomeCents |-> incomeCents, state |-> state,
     filingStatus |-> filingStatus, year |-> year,
     payFreq |-> payFreq, termWeeks |-> termWeeks]

InitEstimate ==
    /\ taxTablesFederal \in FederalTables
    /\ taxTablesState \in StateTables
    /\ estReq = <<>>
    /\ estRes = <<>>
    /\ NoEstimate
    /\ transactions = <<>>
    /\ detected = FALSE
    /\ subscriptions = <<>>
    /\ heap = <<>>
    /\ NoDemo /\ NoSync /\ NoCalls

\* What no step of EstimateTaxes touches.
EstimateRest ==
    /\ UNCHANGED <<transactions, detected, subscriptions, heap>>
    /\ UNCHANGED <<demoVars, syncVars, callVars>>

\* EstimateTaxes is called (one request is followed per behaviour).
\* estimate.go:26-40: a filing status other than "single" is rejected at
\* once; for "single" the call sends the deduction query and waits.
EnterEstimate ==
    /\ estReq = <<>>
    /\ \E incomeCents \in Incomes, state \in States,
          filingStatus \in FilingStatuses, year \in Years,
          payFreq \in PayFreqs, termWeeks \in TermWeeks :
           /\ estReq' = <<Request(incomeCents, state, filingStatus, year,
                                  payFreq, termWeeks)>>
           /\ IF FilingStatusError(filingStatus) # <<>>
              THEN /\ estRes' = <<Rejected(FilingStatusError(filingStatus), 0)>>
                   /\ estCall' = NoLocals
              ELSE /\ estRes' = <<>>
                   /\ estCall' = [NoLocals EXCEPT !.pc = "deduction"]
    /\ UNCHANGED <<taxTablesFederal, taxTablesState, tablesReplaced>>
    /\ EstimateRest

\* estimate.go:31-52: the deduction query answers on the federal table as it
\* is now; without a row the call returns the error, with one it computes
\* the taxable income, sends the federal bracket query and waits.
QueryStdDeduction ==
    /\ estCall.pc = "deduction"
    /\ LET req == estReq[1]
           sds == StdDeductionSingle(taxTablesFederal, req.year)
       IN IF sds = {}
          THEN /\ estRes' = <<Rejected(ErrStdDeduction, 1)>>
               /\ estCall' = NoLocals
          ELSE /\ \E sd \in sds :
                      estCall' = [AfterDeduction(estCall, req.incomeCents, sd)
                                      EXCEPT !.pc = "federal"]
               /\ UNCHANGED estRes
    /\ UNCHANGED <<taxTablesFederal, taxTablesState, estReq, tablesReplaced>>
    /\ EstimateRest

\* estimate.go:48-83 and, with no state given, 106-136: the federal bracket
\* query answers on the federal table as it is now and the rows are walked;
\* then the call sends the state bracket query and waits, or, with no state
\* given, finishes and returns.
QueryFederalBrackets ==
    /\ estCall.pc = "federal"
    /\ LET req == estReq[1]
       IN \E rows \in FederalBrackets(taxTablesFederal, req.year) :
              LET l == AfterFederal(estCall, rows)
              IN IF req.state # ""
                 THEN /\ estCall' = [l EXCEPT !.pc = "state"]
                      /\ UNCHANGED estRes
                 ELSE /\ estRes' = <<Finish(l, req.incomeCents, req.payFreq,
                                            req.termWeeks)>>
                      /\ estCall' = NoLocals
    /\ UNCHANGED <<taxTablesFederal, taxTablesState, estReq, tablesReplaced>>
    /\ EstimateRest

\* estimate.go:79-136: the state bracket query answers on the state table as
\* it is now, the rows are walked, the call finishes and returns.
QueryStateBrackets ==
    /\ estCall.pc = "state"
    /\ LET req == estReq[1]
       IN \E rows \in StateBrackets(taxTablesState, req.year, req.state) :
              /\ estRes' = <<Finish(AfterState(estCall, rows), req.incomeCents,
                                    req.payFreq, req.termWeeks)>>
              /\ estCall' = NoLocals
    /\ UNCHANGED <<taxTablesFederal, taxTablesState, estReq, tablesReplaced>>
    /\ EstimateRest

\* No statement of the program writes tax_tables_federal or tax_tables_state
\* (migrations/0001_create_tables.sql:93-110 creates them empty): their rows
\* are loaded by another client of the database, and EstimateTaxes reads
\* them in separate statements, outside any transaction.  That client
\* replaces the rows of one table while the call waits between two of its
\* queries (once per behaviour; a replacement before the first query is
\* another initial table).
ReplaceTaxTable ==
    /\ estCall.pc \in {"federal", "state"}
    /\ ~tablesReplaced
    /\ tablesReplaced' = TRUE
    /\ \/ /\ taxTablesFederal' \in FederalTables \ {taxTablesFederal}
          /\ UNCHANGED taxTablesState
       \/ /\ taxTablesState' \in StateTables \ {taxTablesState}
          /\ UNCHANGED taxTablesFederal
    /\ UNCHANGED <<estReq, estRes, estCall>>
    /\ EstimateRest

\* The steps of one call of EstimateTaxes.
EstimateTaxesStep ==
    \/ EnterEstimate
    \/ QueryStdDeduction
    \/ QueryFederalBrackets
    \/ QueryStateBrackets

NextEstimate == EstimateTaxesStep \/ ReplaceTaxTable

SpecEstimate == InitEstimate /\ [][NextEstimate]_vars

(***************************************************************************)
(* The demo-mode handler of POST /estimate/taxes, cmd/server/main.go:       *)
(* 291-337, which answers without a database.                              *)
(***************************************************************************)
\* stdDeduction := 1385000 // $13,850.00 in cents
DemoStdDeduction == 1385000

DemoTaxable(incomeCents) ==
    IF incomeCents - DemoStdDeduction < 0 THEN 0
    ELSE incomeCents - DemoStdDeduction

\* federal := taxable * 22 / 100
DemoFederal(taxable) == MulDiv(taxable, 22, 100)

\* state := taxable * 5 / 100, whatever the state of the request
DemoState(taxable) == MulDiv(taxable, 5, 100)

\* fica := body.IncomeCents * 765 / 10000
DemoFica(incomeCents) == MulDiv(incomeCents, 765, 10000)

DemoChecks(payFreq, termWeeks) ==
    IF payFreq = "weekly" THEN termWeeks
    ELSE IF payFreq = "biweekly" THEN TruncDiv(termWeeks, 2)
    ELSE IF payFreq = "monthly" THEN TruncDiv(termWeeks, 4)
    ELSE TruncDiv(termWeeks, 2)

\* The response to a request body that binds: always 200 OK; the filing
\* status and the state of the body are never read.
DemoEstimateTaxes(body) ==
    LET taxable == DemoTaxable(body.incomeCents)
        federal == DemoFederal(taxable)
        state == DemoState(taxable)
        fica == DemoFica(body.incomeCents)
        netAnnual == body.incomeCents - (federal + state + fica)
        checks == DemoChecks(body.payFreq, body.termWeeks)
    IN [status |-> 200,
        federalCents |-> federal,
        stateCents |-> state,
        ficaCents |-> fica,
        perPaycheckNetCents |-> IF checks > 0 THEN TruncDiv(netAnnual, checks) ELSE 0,
        termNetCents |-> netAnnual]

\* The tables the demo figures stand for: the flat brackets.
InitDemo ==
    /\ taxTablesFederal = FedFlat
    /\ taxTablesState = StateFlat
    /\ estReq = <<>>
    /\ estRes = <<>>
    /\ NoEstimate
    /\ transactions = <<>>
    /\ detected = FALSE
    /\ subscriptions = <<>>
    /\ heap = <<>>
    /\ NoDemo /\ NoSync /\ NoCalls

\* The request EstimateTaxes was called with is posted to the demo handler.
PostDemoEstimateTaxes ==
    /\ estReq # <<>>
    /\ demoRes = <<>>
    /\ demoRes' = <<DemoEstimateTaxes(estReq[1])>>
    /\ UNCHANGED <<taxTablesFederal, taxTablesState, estReq, estRes, estVars,
                   transactions, detected, subscriptions, heap>>
    /\ UNCHANGED <<syncVars, callVars>>

NextDemo == EstimateTaxesStep \/ PostDemoEstimateTaxes

SpecDemo == InitDemo /\ [][NextDemo]_vars

(***************************************************************************)
(* Properties of the estimator.                                            *)
(***************************************************************************)
\* The call of EstimateTaxes has returned.
EstCalled == estReq # <<>> /\ estRes # <<>>
EstSucceeded == EstCalled /\ estRes[1].err = <<>>
EstResult == estRes[1].result[1]
EstLocals == estRes[1].locals[1]

RECURSIVE SumSeq(_)
SumSeq(s) == IF s = <<>> THEN 0 ELSE Head(s) + SumSeq(Tail(s))

\* A bracket sequence sorted by low bound that covers [0, infinity) with no
\* gap and no overlap, its last bracket marked by high bound 0.
CoversZeroToInfinity(rows) ==
    /\ Len(rows) >= 1
    /\ rows[1].low = 0
    /\ rows[Len(rows)].high = 0
    /\ \A i \in 1 .. Len(rows) - 1 :
           /\ rows[i].low < rows[i].high
           /\ rows[i].high = rows[i + 1].low

\* C1: a call whose filingStatus is neither "single" nor "married" returns
\* the "unsupported filing status" error and a nil result, whatever the
\* other arguments; nothing was queried or computed before the rejection.
C1_UnsupportedFilingStatusRejected ==
    (EstCalled /\ estReq[1].filingStatus \notin {"single", "married"}) =>
        /\ estRes[1].err = <<"unsupported filing status: ", estReq[1].filingStatus>>
        /\ estRes[1].result = <<>>
        /\ estRes[1].locals = <<>>
        /\ estRes[1].queries = 0

C1_Witness ==
    /\ EstCalled
    /\ estReq[1].filingStatus = "head_of_household"
    /\ estReq[1].incomeCents = 5200000
    /\ estReq[1].year = 2024
    /\ estRes[1].err # <<>>
    /\ estRes[1].result = <<>>

\* C2: a call with filingStatus "married" returns the "not yet supported"
\* error and a nil result; that error differs from the error of every call
\* with an unknown filing status, and nothing of the single-filer
\* computation was run.
C2_MarriedNotYetSupported ==
    (EstCalled /\ estReq[1].filingStatus = "married") =>
        /\ estRes[1].err = <<"married filing jointly not yet supported">>
        /\ estRes[1].result = <<>>
        /\ estRes[1].locals = <<>>
        /\ estRes[1].queries = 0
        /\ \A fs \in FilingStatuses \ {"single", "married"} :
               \A o \in EstimateTaxes(taxTablesFederal, taxTablesState,
                                      estReq[1].incomeCents, estReq[1].state, fs,
                                      estReq[1].year, estReq[1].payFreq,
                                      estReq[1].termWeeks) :
                   /\ o.err # estRes[1].err
                   /\ o.err[1] # estRes[1].err[1]

C2_Witness ==
    /\ EstCalled
    /\ estReq[1].filingStatus = "married"
    /\ estReq[1].incomeCents = 5200000
    /\ estReq[1].year = 2024
    /\ estRes[1].err # <<>>
    /\ estRes[1].result = <<>>

ScenarioARequest == Request(5200000, "CA", "single", 2024, "biweekly", 12)

\* The call of scenario A has returned a result after reading the deduction
\* and the brackets of the scenario.
ScenarioA ==
    /\ estReq = <<ScenarioARequest>>
    /\ EstSucceeded
    /\ EstLocals.stdDeduction = 1385000
    /\ EstLocals.federalRows = <<[low |-> 0, high |-> 0, rate |-> 2200]>>
    /\ EstLocals.stateRows = <<[low |-> 0, high |-> 0, rate |-> 500]>>

\* C3: scenario A (income 5,200,000, deduction 1,385,000, federal 2200 bps
\* unbounded, state 500 bps unbounded, biweekly, 12 weeks) yields taxable
\* 3,815,000, federal 839,300, state 190,750, FICA 397,800, net annual
\* 3,772,150, 6 paychecks and 628,691 per paycheck.
C3_ScenarioA ==
    ScenarioA =>
        /\ estRes[1].err = <<>>
        /\ EstLocals.stdDeduction = 1385000
        /\ EstLocals.taxableIncome = 3815000
        /\ EstResult.FederalCents = 839300
        /\ EstResult.StateCents = 190750
        /\ EstResult.FicaCents = 397800
        /\ EstLocals.netAnnual = 3772150
        /\ EstResult.TermNetCents = 3772150
        /\ EstLocals.checks = 6
        /\ EstResult.PerPaycheckNetCents = 628691

C3_Witness == ScenarioA /\ taxTablesFederal = FedFlat /\ ~tablesReplaced

\* C5: when the bracket table of a walk covers [0, infinity) without gap or
\* overlap, the segments the walk takes are all >= 0 and sum to exactly the
\* taxable income, and the walk ends with remaining = 0.
C5_BracketCoverage ==
    EstSucceeded =>
        /\ CoversZeroToInfinity(EstLocals.federalRows) =>
               /\ SumSeq(EstLocals.federalSegments) = EstLocals.taxableIncome
               /\ EstLocals.federalRemaining = 0
               /\ \A i \in 1 .. Len(EstLocals.federalSegments) :
                      EstLocals.federalSegments[i] >= 0
        /\ ( /\ estReq[1].state # ""
             /\ CoversZeroToInfinity(EstLocals.stateRows) ) =>
               /\ SumSeq(EstLocals.stateSegments) = EstLocals.taxableIncome
               /\ \A i \in 1 .. Len(EstLocals.stateSegments) :
                      EstLocals.stateSegments[i] >= 0

\* A walk that went through all three brackets of FedThree.
C5_Witness ==
    /\ EstSucceeded
    /\ taxTablesFederal = FedThree
    /\ CoversZeroToInfinity(EstLocals.federalRows)
    /\ Len(EstLocals.federalSegments) = 3
    /\ EstLocals.federalSegments[3] > 0

TotalTax(r) == r.FederalCents + r.StateCents + r.FicaCents

\* C6: a call that differs from the call made only by a larger (or equal)
\* annual income, its queries answering the same deduction and the same
\* bracket rows, returns a total federal + state + FICA tax that is not
\* smaller.
C6_Monotonicity ==
    EstSucceeded =>
        \A income2 \in Incomes :
            estReq[1].incomeCents <= income2 =>
                LET o == Computed(EstLocals.stdDeduction, EstLocals.federalRows,
                                  EstLocals.stateRows, income2, estReq[1].state,
                                  estReq[1].payFreq, estReq[1].termWeeks)
                IN /\ o.err = <<>>
                   /\ TotalTax(EstResult) <= TotalTax(o.result[1])

\* A call in the second bracket of FedThree, below incomes that reach the third.
C6_Witness ==
    /\ EstSucceeded
    /\ taxTablesFederal = FedThree
    /\ Len(EstLocals.federalSegments) = 2
    /\ EstResult.FederalCents > 0
    /\ \E income2 \in Incomes : income2 > estReq[1].incomeCents + 10

\* C7: with annual income 0 and a standard deduction >= 0 a successful call
\* returns federal, state, FICA and per-paycheck net all 0.
C7_ZeroIncome ==
    (EstSucceeded /\ estReq[1].incomeCents = 0 /\ EstLocals.stdDeduction >= 0) =>
        /\ EstResult.FederalCents = 0
        /\ EstResult.StateCents = 0
        /\ EstResult.FicaCents = 0
        /\ EstResult.PerPaycheckNetCents = 0

C7_Witness ==
    /\ EstSucceeded
    /\ estReq[1].incomeCents = 0
    /\ EstLocals.stdDeduction > 0
    /\ estReq[1].state = "CA"
    /\ EstLocals.checks = 12

\* C8: when the federal bracket table the call reads is the single bracket
\* {low 0, high 0, 2200 bps}, the federal tax is taxableIncome * 2200 / 10000
\* truncated, the whole taxable income being one segment.
C8_TopBracketSentinel ==
    ( /\ EstSucceeded
      /\ EstLocals.federalRows = <<[low |-> 0, high |-> 0, rate |-> 2200]>> ) =>
        /\ EstResult.FederalCents = MulDiv(EstLocals.taxableIncome, 2200, 10000)
        /\ EstLocals.taxableIncome > 0 =>
               EstLocals.federalSegments = <<EstLocals.taxableIncome>>

C8_Witness ==
    /\ EstSucceeded
    /\ EstLocals.federalRows = <<[low |-> 0, high |-> 0, rate |-> 2200]>>
    /\ estReq[1].year = 2025
    /\ EstLocals.taxableIncome = 27
    /\ EstResult.FederalCents = 5

\* C11: the number of paychecks is termWeeks for "weekly", termWeeks / 2 for
\* "biweekly", termWeeks / 4 for "monthly" and termWeeks / 2 for every other
\* pay frequency, the empty string included, the divisions truncating.
C11_PaycheckCount ==
    EstSucceeded =>
        LET w == estReq[1].termWeeks
            f == estReq[1].payFreq
        IN /\ f = "weekly" => EstLocals.checks = w
           /\ f = "biweekly" => EstLocals.checks = w \div 2
           /\ f = "monthly" => EstLocals.checks = w \div 4
           /\ f \notin {"weekly", "biweekly", "monthly"} => EstLocals.checks = w \div 2
           /\ (f = "weekly" /\ w = 12) => EstLocals.checks = 12

\* A pay frequency the switch does not name, with an odd number of weeks.
C11_Witness ==
    /\ EstSucceeded
    /\ estReq[1].payFreq = "semimonthly"
    /\ estReq[1].termWeeks = 3
    /\ EstLocals.checks = 1

NoPaycheck(req) ==
    \/ req.termWeeks = 0
    \/ req.termWeeks = 1 /\ req.payFreq = "biweekly"
    \/ req.termWeeks < 4 /\ req.payFreq = "monthly"

\* C12: when the paycheck count is 0 the call still returns a result, with
\* per-paycheck net 0, and no division by the count is executed; every
\* division by the paycheck count that is executed has a divisor > 0.
C12_NoDivisionByZero ==
    /\ ( /\ EstCalled
         /\ estReq[1].filingStatus = "single"
         /\ estRes[1].err # ErrStdDeduction
         /\ NoPaycheck(estReq[1]) ) =>
           /\ estRes[1].err = <<>>
           /\ Len(estRes[1].result) = 1
           /\ EstLocals.checks = 0
           /\ EstResult.PerPaycheckNetCents = 0
           /\ EstLocals.divisors = <<>>
    /\ EstSucceeded =>
           /\ \A i \in 1 .. Len(EstLocals.divisors) : EstLocals.divisors[i] > 0
           /\ EstLocals.checks <= 0 => EstResult.PerPaycheckNetCents = 0

\* Three weeks paid monthly: no paycheck, a positive annual net.
C12_Witness ==
    /\ EstSucceeded
    /\ estReq[1].termWeeks = 3
    /\ estReq[1].payFreq = "monthly"
    /\ EstResult.TermNetCents > 0
    /\ EstResult.PerPaycheckNetCents = 0

\* The reference walk: the income left when bracket i is reached, and the
\* segment bracket i takes (none once nothing is left).
RECURSIVE RefRemaining(_, _, _), RefSegment(_, _, _)
RefRemaining(rows, i, taxable) ==
    IF i = 1 THEN taxable
    ELSE RefRemaining(rows, i - 1, taxable) - RefSegment(rows, i - 1, taxable)

RefSegment(rows, i, taxable) ==
    LET remaining == RefRemaining(rows, i, taxable)
        upper == IF rows[i].high = 0 THEN taxable ELSE rows[i].high
        width == upper - rows[i].low
    IN IF remaining <= 0 THEN 0
       ELSE IF remaining <= width THEN remaining ELSE width

RECURSIVE RefTaxUpTo(_, _, _)
RefTaxUpTo(rows, n, taxable) ==
    IF n = 0 THEN 0
    ELSE RefTaxUpTo(rows, n - 1, taxable)
         + MulDiv(RefSegment(rows, n, taxable), rows[n].rate, 10000)

RefTax(rows, taxable) == RefTaxUpTo(rows, Len(rows), taxable)

RECURSIVE RefProductsUpTo(_, _, _)
RefProductsUpTo(rows, n, taxable) ==
    IF n = 0 THEN 0
    ELSE RefProductsUpTo(rows, n - 1, taxable)
         + RefSegment(rows, n, taxable) * rows[n].rate

\* C13: the federal tax is the result of the reference walk over the federal
\* brackets of the year in the ascending order the query returned them, the
\* tax of each segment being truncated bracket by bracket.
C13_BracketWalk ==
    EstSucceeded =>
        /\ EstResult.FederalCents
               = RefTax(EstLocals.federalRows, EstLocals.taxableIncome)
        /\ \A i \in 1 .. Len(EstLocals.federalRows) - 1 :
               EstLocals.federalRows[i].low <= EstLocals.federalRows[i + 1].low

\* A walk over the two brackets of FedTwo whose per-bracket truncation gives
\* less than truncating the total once would.
C13_Witness ==
    /\ EstSucceeded
    /\ EstLocals.federalRows = <<[low |-> 0, high |-> 7, rate |-> 3000],
                                 [low |-> 7, high |-> 0, rate |-> 3700]>>
    /\ EstLocals.federalSegments = <<7, 8>>
    /\ EstResult.FederalCents = 4
    /\ RefProductsUpTo(EstLocals.federalRows, 2, EstLocals.taxableIncome)
           \div 10000 = 5

\* C14: the taxable income is max(0, income - deduction), never negative;
\* FICA is income * 765 / 10000 on the gross income; when the income does
\* not exceed the deduction, federal and state tax are 0 and FICA is still
\* income * 765 / 10000.
C14_TaxableClampAndFica ==
    EstSucceeded =>
        LET income == estReq[1].incomeCents
            ded == EstLocals.stdDeduction
        IN /\ EstLocals.taxableIncome >= 0
           /\ income >= ded => EstLocals.taxableIncome = income - ded
           /\ income <= ded => EstLocals.taxableIncome = 0
           /\ EstResult.FicaCents = MulDiv(income, 765, 10000)
           /\ income <= ded =>
                  /\ EstResult.FederalCents = 0
                  /\ EstResult.StateCents = 0

\* An income below the deduction that still owes FICA.
C14_Witness ==
    /\ EstSucceeded
    /\ estReq[1].incomeCents = 30
    /\ EstLocals.stdDeduction = 1385000
    /\ estReq[1].state = "CA"
    /\ EstResult.FicaCents = 2
    /\ EstResult.FederalCents = 0

\* C15: the state tax is the reference walk over the state's brackets,
\* started from the full taxable income; with no state given, or no bracket
\* row for the state and year, the state tax is 0 and the call succeeds.
C15_StateWalk ==
    /\ EstSucceeded =>
           LET rows == EstLocals.stateRows
           IN /\ estReq[1].state # "" =>
                      EstResult.StateCents = RefTax(rows, EstLocals.taxableIncome)
              /\ (estReq[1].state = "" \/ rows = <<>>) => EstResult.StateCents = 0
    /\ ( /\ EstCalled
         /\ estReq[1].filingStatus = "single"
         /\ estRes[1].err # ErrStdDeduction ) =>
           /\ estRes[1].err = <<>>
           /\ Len(estRes[1].result) = 1

\* A state walk through both brackets of StateTwo after a federal walk that
\* left nothing.
C15_Witness ==
    /\ EstSucceeded
    /\ taxTablesState = StateTwo
    /\ estReq[1].state = "CA"
    /\ EstLocals.federalRemaining = 0
    /\ Len(EstLocals.stateSegments) = 2
    /\ EstResult.StateCents > 0

\* C16: the annual net is income - (federal + state + FICA); with a paycheck
\* count > 0 the per-paycheck net is the annual net divided by the count,
\* truncated; termNetCents is the annual net, not scaled by termWeeks.
C16_NetAndPerPaycheck ==
    EstSucceeded =>
        LET net == estReq[1].incomeCents - TotalTax(EstResult)
            checks == EstLocals.checks
        IN /\ EstLocals.netAnnual = net
           /\ EstResult.TermNetCents = net
           /\ net >= 0
           /\ checks > 0 =>
                  /\ EstResult.PerPaycheckNetCents * checks <= net
                  /\ net - EstResult.PerPaycheckNetCents * checks < checks

\* Scenario A paid weekly: 3,772,150 over 12 paychecks, truncated.
C16_Witness ==
    /\ EstSucceeded
    /\ EstLocals.checks = 12
    /\ EstResult.TermNetCents = 3772150
    /\ EstResult.PerPaycheckNetCents = 314345

(***************************************************************************)
(* The recurring-charge detector, plaid/client.go:221-382.                 *)
(*                                                                         *)
(* A date is a day number: GetTransactions parses dates as "2006-01-02",   *)
(* so every time.Time is a UTC midnight, Sub(...).Hours()/24 is the exact  *)
(* difference of the day numbers and AddDate(0, 0, n) adds n to it.        *)
(* An amount (float64 dollars in the program) is a number of thousandths   *)
(* of a dollar.                                                            *)
(***************************************************************************)
Transaction(id, merchant, amount, date, pending, category) ==
    [ID |-> id, MerchantName |-> merchant, Amount |-> amount, Date |-> date,
     Pending |-> pending, Category |-> category]

\* strings.ToLower on the merchant names that occur.
ToLower(name) ==
    CASE name = "Spotify" -> "spotify"
      [] name = "SPOTIFY" -> "spotify"
      [] name = "Netflix" -> "netflix"
      [] OTHER -> name

\* The text "%.2f" prints for an amount >= 0, as the number of cents it
\* shows: the amount rounded to the nearest cent (no amount of the model is
\* half-way between two cents).
Format2f(amount) == (amount + 5) \div 10

KeyCaseSensitive(txn) == <<txn.MerchantName, Format2f(txn.Amount)>>

\* key := fmt.Sprintf("%s_%.2f", strings.ToLower(txn.MerchantName), txn.Amount)
Key(txn) == <<ToLower(txn.MerchantName), Format2f(txn.Amount)>>

SkippedPendingOnly(txn) == txn.Pending

\* Pending transactions and income are skipped.
Skipped(txn) == txn.Pending \/ txn.Amount < 0

RECURSIVE SelectTxns(_, _)
SelectTxns(txns, k) ==
    IF txns = <<>> THEN <<>>
    ELSE IF ~Skipped(Head(txns)) /\ Key(Head(txns)) = k
         THEN <<Head(txns)>> \o SelectTxns(Tail(txns), k)
         ELSE SelectTxns(Tail(txns), k)

GroupKeys(txns) ==
    {Key(txns[i]) : i \in {j \in 1 .. Len(txns) : ~Skipped(txns[j])}}

\* groups[key] = append(groups[key], txn), over the input in its order.
Groups(txns) == [k \in GroupKeys(txns) |-> SelectTxns(txns, k)]

Swap(s, i, j) == [s EXCEPT ![i] = s[j], ![j] = s[i]]

RECURSIVE SortInnerAscending(_, _, _)
SortInnerAscending(s, i, j) ==
    IF j > Len(s) THEN s
    ELSE SortInnerAscending(IF s[j].Date < s[i].Date THEN Swap(s, i, j) ELSE s,
                            i, j + 1)

RECURSIVE SortInner(_, _, _)
SortInner(s, i, j) ==
    IF j > Len(s) THEN s
    ELSE SortInner(IF s[i].Date < s[j].Date THEN Swap(s, i, j) ELSE s, i, j + 1)

RECURSIVE SortOuter(_, _)
SortOuter(s, i) ==
    IF i > Len(s) - 1 THEN s ELSE SortOuter(SortInner(s, i, i + 1), i + 1)

SortByDateNoSort(txns) == txns

\* The in-place sort of isRecurring (indices here start at 1).
SortByDate(txns) == SortOuter(txns, 1)

IntervalsFromFirst(sorted) ==
    [i \in 1 .. Len(sorted) - 1 |-> sorted[1].Date - sorted[i + 1].Date]

\* days between transactions[i-1] and transactions[i], for i = 1 .. len - 1.
Intervals(sorted) ==
    [i \in 1 .. Len(sorted) - 1 |-> sorted[i].Date - sorted[i + 1].Date]

RECURSIVE SumIntervals(_)
SumIntervals(s) == IF s = <<>> THEN 0 ELSE Head(s) + SumIntervals(Tail(s))

abs(x) == IF x < 0 THEN -x ELSE x

TooFewAtThree(txns) == Len(txns) < 3

\* Need at least 2 transactions to detect a pattern.
TooFew(txns) == Len(txns) < 2

isRecurringStrictTolerance(txns) ==
    IF TooFew(txns) THEN FALSE
    ELSE LET intervals == Intervals(SortByDate(txns))
             avgInterval == TruncDiv(SumIntervals(intervals), Len(intervals))
         IN \A i \in 1 .. Len(intervals) : abs(intervals[i] - avgInterval) < 5

\* What isRecurring returns; the slice it is given is left sorted by date.
isRecurring(txns) ==
    IF TooFew(txns) THEN FALSE
    ELSE LET intervals == Intervals(SortByDate(txns))
             avgInterval == TruncDiv(SumIntervals(intervals), Len(intervals))
         IN \A i \in 1 .. Len(intervals) : abs(intervals[i] - avgInterval) <= 5

AvgDaysDividesByCount(txns) ==
    TruncDiv(txns[1].Date - txns[Len(txns)].Date, Len(txns))

\* totalDays / (len(transactions) - 1), of determineFrequency and predictNextDue.
AvgDays(txns) ==
    TruncDiv(txns[1].Date - txns[Len(txns)].Date, Len(txns) - 1)

determineFrequencyStrict(txns) ==
    IF Len(txns) < 2 THEN "unknown"
    ELSE IF AvgDays(txns) < 8 THEN "weekly"
    ELSE IF AvgDays(txns) < 35 THEN "monthly"
    ELSE IF AvgDays(txns) < 95 THEN "quarterly"
    ELSE "yearly"

determineFrequency(txns) ==
    IF Len(txns) < 2 THEN "unknown"
    ELSE IF AvgDays(txns) <= 8 THEN "weekly"
    ELSE IF AvgDays(txns) <= 35 THEN "monthly"
    ELSE IF AvgDays(txns) <= 95 THEN "quarterly"
    ELSE "yearly"

predictNextDueFromOldest(txns, now) ==
    IF Len(txns) < 2 THEN now ELSE txns[Len(txns)].Date + AvgDays(txns)

\* now is the day time.Now() falls on.
predictNextDue(txns, now) ==
    IF Len(txns) < 2 THEN now ELSE txns[1].Date + AvgDays(txns)

RecurringSubscriptionFromOldest(txns, now) ==
    [MerchantName |-> txns[Len(txns)].MerchantName,
     Amount |-> txns[Len(txns)].Amount,
     Frequency |-> determineFrequency(txns),
     LastCharge |-> txns[Len(txns)].Date,
     NextDue |-> predictNextDue(txns, now),
     Category |-> txns[Len(txns)].Category]

\* The record built from the group once isRecurring has sorted it.
RecurringSubscription(txns, now) ==
    [MerchantName |-> txns[1].MerchantName,
     Amount |-> txns[1].Amount,
     Frequency |-> determineFrequency(txns),
     LastCharge |-> txns[1].Date,
     NextDue |-> predictNextDue(txns, now),
     Category |-> txns[1].Category]

\* The loop over the groups, taken in the sequence order of their keys.
RECURSIVE DetectLoop(_, _, _)
DetectLoop(groups, order, now) ==
    IF order = <<>> THEN <<>>
    ELSE LET txns == groups[Head(order)]
             rest == DetectLoop(groups, Tail(order), now)
         IN IF TooFew(txns) THEN rest
            ELSE IF isRecurring(txns)
                 THEN <<RecurringSubscription(SortByDate(txns), now)>> \o rest
                 ELSE rest

\* The sequences that enumerate a set once each: the orders in which a range
\* over a Go map may visit its keys.
RECURSIVE Orders(_)
Orders(S) ==
    IF S = {} THEN {<<>>}
    ELSE UNION {{<<k>> \o o : o \in Orders(S \ {k})} : k \in S}

\* What DetectRecurringTransactions returns when the range over the group map
\* visits the keys in the given order.
DetectRecurringTransactions(txns, order, now) ==
    DetectLoop(Groups(txns), order, now)

(***************************************************************************)
(* The memory DetectRecurringTransactions works on.  A slice is a header   *)
(* (array, len, cap) over a backing array, and two slices alias when their *)
(* headers name the same array.  The heap is the sequence of the arrays    *)
(* allocated so far; the address of an array is its index.                 *)
(***************************************************************************)
\* The address of the array behind the parameter transactions.
CallerArray == 1

\* The header of the parameter over a list of n transactions.
CallerSlice(n) == [array |-> CallerArray, len |-> n, cap |-> n]

\* groups[key] for a key the map does not hold: the nil slice.
NilSlice == [array |-> 0, len |-> 0, cap |-> 0]

\* The zero Transaction, in the slots of an array beyond the length in use.
ZeroTransaction == Transaction(0, "", 0, 0, FALSE, <<>>)

\* The elements the slice s shows.
Elements(mem, s) == [i \in 1 .. s.len |-> mem[s.array][i]]

\* The capacity of the array append allocates for a slice that is full: the
\* runtime doubles a short slice.  No statement of the detector reads cap.
GrowCap(cap) == IF cap = 0 THEN 1 ELSE 2 * cap

\* append(s, x): with room left x is written behind the last element of the
\* array of s; a full (or nil) slice gets a new array, the elements of s are
\* copied to it and x is written behind them.  The memory and the header
\* returned.
append(mem, s, x) ==
    IF s.len < s.cap
    THEN [mem |-> [mem EXCEPT ![s.array][s.len + 1] = x],
          slice |-> [s EXCEPT !.len = s.len + 1]]
    ELSE LET newcap == GrowCap(s.cap)
             array == [i \in 1 .. newcap |->
                          IF i <= s.len THEN mem[s.array][i]
                          ELSE IF i = s.len + 1 THEN x
                          ELSE ZeroTransaction]
         IN [mem |-> Append(mem, array),
             slice |-> [array |-> Len(mem) + 1, len |-> s.len + 1,
                        cap |-> newcap]]

\* client.go:226-235 from element i of the parameter on: the range copies the
\* element into txn, and the copy is appended to the slice the map holds for
\* its key.  The memory and the map (key to header) after the loop.
RECURSIVE GroupFrom(_, _, _, _)
GroupFrom(mem, groups, caller, i) ==
    IF i > caller.len THEN [mem |-> mem, groups |-> groups]
    ELSE LET txn == mem[caller.array][i]
         IN IF Skipped(txn) THEN GroupFrom(mem, groups, caller, i + 1)
            ELSE LET key == Key(txn)
                     old == IF key \in DOMAIN groups THEN groups[key]
                            ELSE NilSlice
                     new == append(mem, old, txn)
                 IN GroupFrom(new.mem,
                              [k \in DOMAIN groups \cup {key} |->
                                  IF k = key THEN new.slice ELSE groups[k]],
                              caller, i + 1)

SwapInCallerArray(mem, s, i, j) ==
    [mem EXCEPT ![CallerArray][i] = mem[CallerArray][j],
                ![CallerArray][j] = mem[CallerArray][i]]

\* transactions[i], transactions[j] = transactions[j], transactions[i] in
\* isRecurring: both writes go to the array of the slice it was given.
SwapInPlace(mem, s, i, j) ==
    [mem EXCEPT ![s.array][i] = mem[s.array][j],
                ![s.array][j] = mem[s.array][i]]

RECURSIVE SortInnerInPlace(_, _, _, _)
SortInnerInPlace(mem, s, i, j) ==
    IF j > s.len THEN mem
    ELSE SortInnerInPlace(IF mem[s.array][i].Date < mem[s.array][j].Date
                          THEN SwapInPlace(mem, s, i, j) ELSE mem,
                          s, i, j + 1)

\* The sort of isRecurring, on the memory.
RECURSIVE SortOuterInPlace(_, _, _)
SortOuterInPlace(mem, s, i) ==
    IF i > s.len - 1 THEN mem
    ELSE SortOuterInPlace(SortInnerInPlace(mem, s, i, i + 1), s, i + 1)

\* client.go:239-257, the keys taken in the given order: a group of two or
\* more is handed to isRecurring, which sorts it where it lies; nothing else
\* in the loop writes to an array.
RECURSIVE VisitFrom(_, _, _)
VisitFrom(mem, groups, order) ==
    IF order = <<>> THEN mem
    ELSE LET txns == groups[Head(order)]
         IN VisitFrom(IF txns.len < 2 THEN mem
                      ELSE SortOuterInPlace(mem, txns, 1),
                      groups, Tail(order))

\* The memory when DetectRecurringTransactions returns, called with the
\* slice caller on the memory mem.
MemoryAfter(mem, caller, order) ==
    LET grouped == GroupFrom(mem, <<>>, caller, 1)
    IN VisitFrom(grouped.mem, grouped.groups, order)

\* The list the caller holds after a call on it.
CallerSliceAfter(txns, order) ==
    LET caller == CallerSlice(Len(txns))
    IN Elements(MemoryAfter(<<txns>>, caller, order), caller)

(***************************************************************************)
(* The data the detector is exercised on.                                  *)
(***************************************************************************)
Days == {0, 30, 60, 95, 96, 104}
Clock == {120}

TxnDomain ==
    {Transaction(0, "Spotify", 9990, d, FALSE, <<"Music">>) : d \in Days}
    \cup {Transaction(0, "SPOTIFY", 9990, d, FALSE, <<"Service">>) : d \in {30, 60}}
    \cup {Transaction(0, "Netflix", 9990, d, FALSE, <<"Video">>) : d \in {0, 30}}
    \cup {Transaction(0, "Spotify", 10000, 30, FALSE, <<"Music">>),
          Transaction(0, "Spotify", 9994, 0, FALSE, <<"Music">>),
          Transaction(0, "Spotify", 9990, 60, TRUE, <<"Music">>),
          Transaction(0, "Spotify", -9990, 60, FALSE, <<"Refund">>)}

RECURSIVE SeqsUpTo(_, _)
SeqsUpTo(S, n) ==
    IF n = 0 THEN {<<>>}
    ELSE SeqsUpTo(S, n - 1)
         \cup {Append(s, x) : s \in {q \in SeqsUpTo(S, n - 1) : Len(q) = n - 1},
                              x \in S}

\* The transaction with the given fields, identified by its place in the list.
WithIDs(txns) == [i \in 1 .. Len(txns) |-> [txns[i] EXCEPT !.ID = i]]

InitDetect ==
    /\ taxTablesFederal = FedFlat
    /\ taxTablesState = StateFlat
    /\ estReq = <<>>
    /\ estRes = <<>>
    /\ NoEstimate
    /\ transactions \in {WithIDs(s) : s \in SeqsUpTo(TxnDomain, MaxTxns)}
    /\ detected = FALSE
    /\ subscriptions = <<>>
    /\ heap = <<transactions>>
    /\ NoDemo /\ NoSync /\ NoCalls

\* One call of DetectRecurringTransactions on the caller's list, which lies
\* in the array at CallerArray; afterwards the caller reads its list from
\* that array again.
CallDetectRecurringTransactions ==
    /\ ~detected
    /\ \E order \in Orders(GroupKeys(transactions)), now \in Clock :
           /\ subscriptions' = DetectRecurringTransactions(transactions, order, now)
           /\ heap' = MemoryAfter(heap, CallerSlice(Len(transactions)), order)
    /\ detected' = TRUE
    /\ transactions' = Elements(heap', CallerSlice(Len(transactions)))
    /\ UNCHANGED <<taxTablesFederal, taxTablesState, estReq, estRes, estVars>>
    /\ UNCHANGED <<demoVars, syncVars, callVars>>

NextDetect == CallDetectRecurringTransactions

SpecDetect == InitDetect /\ [][NextDetect]_vars

\* Lists long enough to hold two recurring charges at once.
PairDomain ==
    {Transaction(0, m, 9990, d, FALSE, <<"Service">>) :
        m \in {"Spotify", "Netflix"}, d \in {0, 30}}

InitDetectPairs ==
    /\ taxTablesFederal = FedFlat
    /\ taxTablesState = StateFlat
    /\ estReq = <<>>
    /\ estRes = <<>>
    /\ NoEstimate
    /\ transactions \in {WithIDs(s) : s \in SeqsUpTo(PairDomain, MaxPairTxns)}
    /\ detected = FALSE
    /\ subscriptions = <<>>
    /\ heap = <<transactions>>
    /\ NoDemo /\ NoSync /\ NoCalls

SpecDetectPairs == InitDetectPairs /\ [][NextDetect]_vars

(***************************************************************************)
(* The transaction sync, plaid/client.go:561-620, with                      *)
(* store.CreateSubscription, store/store.go:115-135, for one user.         *)
(***************************************************************************)
\* int(x * 100) for a float64 amount x of dollars: the float64 product,
\* truncated toward zero.  19.99 * 100 is 1998.9999999999998 in float64;
\* the product of every other amount of the model is exact or lies well
\* inside its cent.
AmountCents(amount) ==
    CASE amount = 19990 -> 1998
      [] OTHER -> TruncDiv(amount, 10)

frequencyToDays(frequency) ==
    CASE frequency = "weekly" -> 7
      [] frequency = "monthly" -> 30
      [] frequency = "quarterly" -> 90
      [] frequency = "yearly" -> 365
      [] OTHER -> 30

\* The values of the INSERT INTO transactions statement.
TransactionRow(txn) ==
    [source |-> "plaid", ext_id |-> txn.ID, txn_date |-> txn.Date,
     merchant |-> txn.MerchantName, amount_cents |-> AmountCents(txn.Amount),
     category |-> txn.Category]

InsertTransactionOnUniqueIndex(rows, txn) ==
    LET row == TransactionRow(txn)
        conflict == \E i \in 1 .. Len(rows) :
                        /\ rows[i].source = row.source
                        /\ rows[i].ext_id = row.ext_id
    IN [rows |-> IF conflict THEN rows ELSE Append(rows, row), err |-> FALSE]

\* One INSERT INTO transactions ... ON CONFLICT (user_id, source, ext_id) DO
\* NOTHING (client.go:570-575) on the table the migration creates
\* (0001_create_tables.sql:62-72).  The table has no unique constraint on
\* these columns, so the database rejects the statement whatever the values
\* are: no row is written and ExecContext returns the error.  The rows of
\* the table after the statement, and whether it failed.
InsertTransaction(rows, txn) == [rows |-> rows, err |-> TRUE]

\* The store.Subscription the sync builds from a detected subscription.
Subscription(sub) ==
    [Merchant |-> sub.MerchantName,
     AmountCents |-> AmountCents(sub.Amount),
     CadenceDays |-> frequencyToDays(sub.Frequency),
     NextDue |-> sub.NextDue,
     Source |-> "plaid",
     IsActive |-> TRUE]

\* store.CreateSubscription: the rows of table subscriptions after the call.
\* Invalid fields are refused; the row gets a fresh id, and the statement
\* writes the source 'manual' whatever s.Source is.
CreateSubscription(rows, s) ==
    IF s.Merchant = "" \/ s.AmountCents <= 0 \/ s.CadenceDays <= 0
    THEN rows
    ELSE Append(rows, [id |-> Len(rows) + 1,
                       merchant |-> s.Merchant,
                       amount_cents |-> s.AmountCents,
                       cadence_days |-> s.CadenceDays,
                       next_due |-> s.NextDue,
                       source |-> "manual",
                       is_active |-> TRUE])

SyncDomain ==
    {Transaction(0, "Spotify", 9990, d, FALSE, <<"Music">>) : d \in {0, 30}}
    \cup {Transaction(0, "Netflix", 19990, d, FALSE, <<"Video">>) : d \in {0, 30}}
    \cup {Transaction(0, "Spotify", 4, d, FALSE, <<"Music">>) : d \in {0, 30}}

\* The bodies posted to /api/v1/subs: a gym membership entered by hand, and a
\* body without a merchant.
ManualSubscriptions ==
    {[Merchant |-> "Gym", AmountCents |-> 2500, CadenceDays |-> 30,
      NextDue |-> 60, Source |-> "", IsActive |-> FALSE],
     [Merchant |-> "", AmountCents |-> 2500, CadenceDays |-> 30,
      NextDue |-> 60, Source |-> "", IsActive |-> FALSE]}

\* A run of syncAccountsAndTransactions that has not been requested.
NoRun ==
    [pc |-> "idle", after |-> 0, transactions |-> <<>>, txn |-> 0,
     subscriptions |-> <<>>, sub |-> 0, err |-> FALSE]

\* transactions is the list GetTransactions returns, the same on every run.
\* The tables are the ones the migration creates, empty.
InitSync ==
    /\ taxTablesFederal = FedFlat
    /\ taxTablesState = StateFlat
    /\ estReq = <<>>
    /\ estRes = <<>>
    /\ NoEstimate
    /\ transactions \in {WithIDs(s) : s \in SeqsUpTo(SyncDomain, MaxSyncTxns)}
    /\ detected = FALSE
    /\ subscriptions = <<>>
    /\ heap = <<>>
    /\ dbTransactions = <<>>
    /\ dbSubscriptions = <<>>
    /\ syncRuns = 0
    /\ syncCalls = [r \in 1 .. MaxSyncRuns |-> NoRun]
    /\ subsPosted = 0
    /\ NoDemo /\ NoCalls

\* What no step of a sync and no request to /subs touches.
SyncRest ==
    /\ UNCHANGED <<taxTablesFederal, taxTablesState, estReq, estRes, estVars>>
    /\ UNCHANGED <<transactions, detected, subscriptions, heap>>
    /\ UNCHANGED <<demoVars, callVars>>

\* client.go:465, 492: a request handler, in the goroutine of its request,
\* calls syncAccountsAndTransactions, which asks Plaid for the transactions
\* (client.go:563) and waits.  The runs are numbered in the order they begin.
BeginSync(r) ==
    /\ syncCalls[r].pc = "idle"
    /\ \A q \in 1 .. r - 1 : syncCalls[q].pc # "idle"
    /\ syncCalls' = [syncCalls EXCEPT ![r] =
                        [NoRun EXCEPT !.pc = "fetch", !.after = syncRuns]]
    /\ UNCHANGED <<dbTransactions, dbSubscriptions, syncRuns, subsPosted>>
    /\ SyncRest

\* client.go:563-566: GetTransactions answers with the list.
SyncGetTransactions(r) ==
    /\ syncCalls[r].pc = "fetch"
    /\ syncCalls' = [syncCalls EXCEPT ![r].pc = "insert",
                                      ![r].transactions = transactions,
                                      ![r].txn = 1]
    /\ UNCHANGED <<dbTransactions, dbSubscriptions, syncRuns, subsPosted>>
    /\ SyncRest

\* client.go:569-580: one iteration of the loop that stores the raw
\* transactions, one INSERT in its own implicit transaction.  When the
\* statement fails the sync returns its error (client.go:577-579).
SyncInsertTransaction(r) ==
    /\ syncCalls[r].pc = "insert"
    /\ syncCalls[r].txn <= Len(syncCalls[r].transactions)
    /\ LET stmt == InsertTransaction(dbTransactions,
                                     syncCalls[r].transactions[syncCalls[r].txn])
       IN /\ dbTransactions' = stmt.rows
          /\ IF stmt.err
             THEN /\ syncCalls' = [syncCalls EXCEPT ![r].pc = "done",
                                                    ![r].err = TRUE]
                  /\ syncRuns' = syncRuns + 1
             ELSE /\ syncCalls' = [syncCalls EXCEPT ![r].txn = @ + 1]
                  /\ UNCHANGED syncRuns
    /\ UNCHANGED <<dbSubscriptions, subsPosted>>
    /\ SyncRest

\* client.go:583: every INSERT of the list has succeeded (none, for an empty
\* list); DetectRecurringTransactions runs on the list.
SyncDetect(r) ==
    /\ syncCalls[r].pc = "insert"
    /\ syncCalls[r].txn > Len(syncCalls[r].transactions)
    /\ \E order \in Orders(GroupKeys(syncCalls[r].transactions)), now \in Clock :
           syncCalls' =
               [syncCalls EXCEPT
                   ![r].pc = "store",
                   ![r].transactions = CallerSliceAfter(@, order),
                   ![r].subscriptions =
                       DetectRecurringTransactions(syncCalls[r].transactions,
                                                   order, now),
                   ![r].sub = 1]
    /\ UNCHANGED <<dbTransactions, dbSubscriptions, syncRuns, subsPosted>>
    /\ SyncRest

\* client.go:586-604, one step of the range over the detected
\* subscriptions: an iteration stores the next one with CreateSubscription
\* and skips over its error; with none left the run returns nil.
SyncRangeSubscriptions(r) ==
    /\ syncCalls[r].pc = "store"
    /\ IF syncCalls[r].sub <= Len(syncCalls[r].subscriptions)
       THEN /\ dbSubscriptions' =
                   CreateSubscription(
                       dbSubscriptions,
                       Subscription(syncCalls[r].subscriptions[syncCalls[r].sub]))
            /\ syncCalls' = [syncCalls EXCEPT ![r].sub = @ + 1]
            /\ UNCHANGED syncRuns
       ELSE /\ UNCHANGED dbSubscriptions
            /\ syncCalls' = [syncCalls EXCEPT ![r].pc = "done"]
            /\ syncRuns' = syncRuns + 1
    /\ UNCHANGED <<dbTransactions, subsPosted>>
    /\ SyncRest

\* The steps of syncAccountsAndTransactions, for any run under way.
syncAccountsAndTransactions ==
    \E r \in 1 .. MaxSyncRuns :
        \/ BeginSync(r)
        \/ SyncGetTransactions(r)
        \/ SyncInsertTransaction(r)
        \/ SyncDetect(r)
        \/ SyncRangeSubscriptions(r)

\* cmd/server/main.go:466-483, POST /api/v1/subs outside demo mode: the body
\* is handed to store.CreateSubscription, which answers 400 without a write
\* when a field is invalid.
PostSubs ==
    /\ subsPosted < MaxSubsPosted
    /\ subsPosted' = subsPosted + 1
    /\ \E req \in ManualSubscriptions :
           dbSubscriptions' = CreateSubscription(dbSubscriptions, req)
    /\ UNCHANGED <<dbTransactions, syncRuns, syncCalls>>
    /\ SyncRest

NextSync == syncAccountsAndTransactions \/ PostSubs

SpecSync == InitSync /\ [][NextSync]_vars

(***************************************************************************)
(* Calls of EstimateTaxes and DetectRecurringTransactions running in        *)
(* several goroutines (the server handles each request in its own one), a   *)
(* call advancing by one phase of its function at a time.                  *)
(***************************************************************************)
\* Where the local variables of the call of goroutine p live: every
\* invocation has its own (stdDeduction, taxableIncome, federalTax, remaining,
\* stateTax are declared in the body of EstimateTaxes, groups and
\* subscriptions in the body of DetectRecurringTransactions; neither package
\* has a variable at package level).
Frame(p) == p

\* The local variables at their zero values.
ZeroFrame ==
    [stdDeduction |-> 0, taxableIncome |-> 0, federalTax |-> 0, remaining |-> 0,
     stateTax |-> 0, groups |-> <<>>, keysLeft |-> {}, subscriptions |-> <<>>]

IdleCall ==
    [kind |-> "idle", pc |-> "idle", input |-> <<>>, result |-> <<>>,
     overlap |-> FALSE]

\* Some other goroutine is inside a call.
OthersRunning(p) ==
    \E q \in DOMAIN calls : q # p /\ calls[q].pc \notin {"idle", "done"}

ConcurrentRequests ==
    {Request(30, "CA", "single", 2024, "biweekly", 12),
     Request(12, "", "single", 2024, "weekly", 3),
     Request(30, "CA", "married", 2024, "monthly", 12),
     Request(30, "CA", "single", 2025, "monthly", 12)}

ConcurrentLists ==
    {WithIDs(<<Transaction(0, "Spotify", 9990, 0, FALSE, <<"Music">>),
               Transaction(0, "Spotify", 9990, 30, FALSE, <<"Music">>)>>),
     WithIDs(<<Transaction(0, "Netflix", 9990, 30, FALSE, <<"Video">>),
               Transaction(0, "Spotify", 9990, 60, FALSE, <<"Music">>),
               Transaction(0, "Netflix", 9990, 0, FALSE, <<"Video">>)>>),
     WithIDs(<<Transaction(0, "Spotify", 9990, 0, FALSE, <<"Music">>),
               Transaction(0, "Netflix", 9990, 0, FALSE, <<"Video">>),
               Transaction(0, "Spotify", 9990, 30, FALSE, <<"Music">>),
               Transaction(0, "Netflix", 9990, 30, FALSE, <<"Video">>)>>)}

InitConcurrent ==
    /\ taxTablesFederal = FedThree
    /\ taxTablesState = StateTwo
    /\ estReq = <<>>
    /\ estRes = <<>>
    /\ NoEstimate
    /\ transactions = <<>>
    /\ detected = FALSE
    /\ subscriptions = <<>>
    /\ heap = <<>>
    /\ NoDemo /\ NoSync
    /\ calls = [p \in 1 .. MaxCalls |-> IdleCall]
    /\ frames = [p \in 1 .. MaxCalls |-> ZeroFrame]

Rest ==
    UNCHANGED <<taxTablesFederal, taxTablesState, estReq, estRes, estVars,
                transactions, detected, subscriptions, heap, demoVars, syncVars>>

\* Goroutine p enters EstimateTaxes: its locals are declared.
EnterEstimateTaxes(p) ==
    /\ calls[p].pc = "idle"
    /\ \E req \in ConcurrentRequests :
           calls' = [calls EXCEPT ![p] =
                        [kind |-> "estimate", pc |-> "deduction", input |-> req,
                         result |-> <<>>, overlap |-> OthersRunning(p)]]
    /\ frames' = [frames EXCEPT ![Frame(p)] = ZeroFrame]
    /\ Rest

\* estimate.go:27-45: the filing status, the standard deduction, the taxable
\* income.
EstDeduction(p) ==
    /\ calls[p].kind = "estimate" /\ calls[p].pc = "deduction"
    /\ LET req == calls[p].input
           e == FilingStatusError(req.filingStatus)
           sds == StdDeductionSingle(taxTablesFederal, req.year)
       IN IF e # <<>> \/ sds = {}
          THEN /\ calls' = [calls EXCEPT
                               ![p].pc = "done",
                               ![p].result =
                                   [err |-> IF e # <<>> THEN e ELSE ErrStdDeduction,
                                    result |-> <<>>]]
               /\ UNCHANGED frames
          ELSE /\ \E sd \in sds :
                      frames' = [frames EXCEPT
                                    ![Frame(p)].stdDeduction = sd,
                                    ![Frame(p)].taxableIncome =
                                        TaxableIncome(req.incomeCents, sd)]
               /\ calls' = [calls EXCEPT ![p].pc = "federal"]
    /\ Rest

\* estimate.go:46-75: the federal bracket walk.
EstFederal(p) ==
    /\ calls[p].kind = "estimate" /\ calls[p].pc = "federal"
    /\ \E rows \in FederalBrackets(taxTablesFederal, calls[p].input.year) :
           LET f == frames[Frame(p)]
               walk == BracketWalk(rows, f.taxableIncome)
           IN frames' = [frames EXCEPT ![Frame(p)].federalTax = walk.tax,
                                       ![Frame(p)].remaining = walk.remaining]
    /\ calls' = [calls EXCEPT ![p].pc = "state"]
    /\ Rest

\* estimate.go:76-103: the state bracket walk.
EstState(p) ==
    /\ calls[p].kind = "estimate" /\ calls[p].pc = "state"
    /\ LET f == frames[Frame(p)]
           req == calls[p].input
       IN \E rows \in IF req.state # ""
                      THEN StateBrackets(taxTablesState, req.year, req.state)
                      ELSE {<<>>} :
              LET walk == IF req.state # ""
                          THEN WalkFrom(rows, 1, f.taxableIncome,
                                        StateWalkStart(f.taxableIncome, f.remaining),
                                        0, <<>>)
                          ELSE [tax |-> 0, remaining |-> f.remaining,
                                segments |-> <<>>]
              IN frames' = [frames EXCEPT ![Frame(p)].stateTax = walk.tax,
                                          ![Frame(p)].remaining = walk.remaining]
    /\ calls' = [calls EXCEPT ![p].pc = "net"]
    /\ Rest

\* estimate.go:104-136: FICA, the paychecks, the result.
EstReturn(p) ==
    /\ calls[p].kind = "estimate" /\ calls[p].pc = "net"
    /\ LET f == frames[Frame(p)]
           req == calls[p].input
           ficaTax == FicaTax(req.incomeCents)
           checks == Checks(req.payFreq, req.termWeeks)
           netAnnual == NetAnnual(req.incomeCents, f.federalTax + f.stateTax + ficaTax)
       IN calls' = [calls EXCEPT
                       ![p].pc = "done",
                       ![p].result =
                           [err |-> <<>>,
                            result |-> <<[FederalCents |-> f.federalTax,
                                          StateCents |-> f.stateTax,
                                          FicaCents |-> ficaTax,
                                          PerPaycheckNetCents |-> PerPay(netAnnual, checks),
                                          TermNetCents |-> netAnnual]>>]]
    /\ UNCHANGED frames
    /\ Rest

\* Goroutine p enters DetectRecurringTransactions on a list of its own.
EnterDetectRecurringTransactions(p) ==
    /\ calls[p].pc = "idle"
    /\ \E txns \in ConcurrentLists :
           calls' = [calls EXCEPT ![p] =
                        [kind |-> "detect", pc |-> "group", input |-> txns,
                         result |-> <<>>, overlap |-> OthersRunning(p)]]
    /\ frames' = [frames EXCEPT ![Frame(p)] = ZeroFrame]
    /\ Rest

\* client.go:224-236: the group map is filled.
DetGroup(p) ==
    /\ calls[p].kind = "detect" /\ calls[p].pc = "group"
    /\ frames' = [frames EXCEPT
                     ![Frame(p)].groups = Groups(calls[p].input),
                     ![Frame(p)].keysLeft = GroupKeys(calls[p].input),
                     ![Frame(p)].subscriptions = <<>>]
    /\ calls' = [calls EXCEPT ![p].pc = "range"]
    /\ Rest

\* client.go:238-257: one iteration of the range over the group map, on any
\* key not visited yet.  txns shares its backing array with groups[key], so
\* the sort isRecurring does in place (client.go:310-316) leaves the group
\* latest first in the map as well; a group of fewer than two transactions
\* is skipped before isRecurring is called.
DetVisit(p) ==
    /\ calls[p].kind = "detect" /\ calls[p].pc = "range"
    /\ LET f == frames[Frame(p)]
       IN \E k \in f.keysLeft, now \in Clock :
              LET txns == f.groups[k]
              IN frames' = [frames EXCEPT
                     ![Frame(p)].groups[k] =
                         IF TooFew(txns) THEN txns ELSE SortByDate(txns),
                     ![Frame(p)].keysLeft = f.keysLeft \ {k},
                     ![Frame(p)].subscriptions =
                         IF ~TooFew(txns) /\ isRecurring(txns)
                         THEN Append(f.subscriptions,
                                     RecurringSubscription(SortByDate(txns), now))
                         ELSE f.subscriptions]
    /\ UNCHANGED calls
    /\ Rest

\* client.go:259: the slice is returned once every key has been visited.
DetReturn(p) ==
    /\ calls[p].kind = "detect" /\ calls[p].pc = "range"
    /\ frames[Frame(p)].keysLeft = {}
    /\ calls' = [calls EXCEPT ![p].pc = "done",
                              ![p].result = frames[Frame(p)].subscriptions]
    /\ UNCHANGED frames
    /\ Rest

NextConcurrent ==
    \E p \in 1 .. MaxCalls :
        \/ EnterEstimateTaxes(p)
        \/ EstDeduction(p)
        \/ EstFederal(p)
        \/ EstState(p)
        \/ EstReturn(p)
        \/ EnterDetectRecurringTransactions(p)
        \/ DetGroup(p)
        \/ DetVisit(p)
        \/ DetReturn(p)

SpecConcurrent == InitConcurrent /\ [][NextConcurrent]_vars

(***************************************************************************)
(* Properties of the detector.                                             *)
(***************************************************************************)
\* The transactions of the list that are neither pending nor negative and
\* carry the key k, as a set of positions.
Members(k) ==
    {i \in 1 .. Len(transactions) :
        ~transactions[i].Pending /\ transactions[i].Amount >= 0
        /\ Key(transactions[i]) = k}

\* The positions of the returned slice that report the group of key k.
Reports(k) ==
    {n \in 1 .. Len(subscriptions) : Key(subscriptions[n]) = k}

MaxOf(S) == CHOOSE x \in S : \A y \in S : y <= x
MinOf(S) == CHOOSE x \in S : \A y \in S : x <= y

LatestDate(k) == MaxOf({transactions[i].Date : i \in Members(k)})
OldestDate(k) == MinOf({transactions[i].Date : i \in Members(k)})

\* totalSpanDays / (count - 1) of the group of key k, of two members or more.
AverageGap(k) == (LatestDate(k) - OldestDate(k)) \div (Cardinality(Members(k)) - 1)

ScenarioB ==
    /\ Len(transactions) = 3
    /\ {transactions[i].Date : i \in 1 .. 3} = {0, 30, 60}
    /\ \A i \in 1 .. 3 :
           /\ transactions[i].MerchantName = "Spotify"
           /\ transactions[i].Amount = 9990
           /\ ~transactions[i].Pending

\* C4: scenario B (three non-pending transactions of merchant "Spotify" and
\* amount 9.99, dated days 0, 30 and 60, in any order of the list) returns
\* exactly one subscription: monthly, last charge on day 60, next due on
\* day 90.
C4_ScenarioB ==
    (detected /\ ScenarioB) =>
        /\ Len(subscriptions) = 1
        /\ subscriptions[1].MerchantName = "Spotify"
        /\ subscriptions[1].Amount = 9990
        /\ subscriptions[1].Frequency = "monthly"
        /\ subscriptions[1].LastCharge = 60
        /\ subscriptions[1].NextDue = 60 + 30

\* Scenario B with the list given oldest first, so that the sort has to
\* reverse it.
C4_Witness ==
    /\ detected /\ ScenarioB
    /\ transactions[1].Date = 0 /\ transactions[3].Date = 60
    /\ Len(subscriptions) = 1

\* C9: a group of exactly one eligible transaction is never reported, and a
\* group of exactly two is reported once, whatever the days between its two
\* dates (0 included).
C9_MinimumSupport ==
    detected =>
        \A k \in {Key(transactions[i]) : i \in 1 .. Len(transactions)} :
            /\ Cardinality(Members(k)) = 1 => Reports(k) = {}
            /\ Cardinality(Members(k)) = 2 => Cardinality(Reports(k)) = 1

\* A list holding a group of two on the same day and a group of one.
C9_Witness ==
    /\ detected
    /\ \E k1, k2 \in GroupKeys(transactions) :
           /\ Cardinality(Members(k1)) = 2
           /\ LatestDate(k1) = OldestDate(k1)
           /\ Cardinality(Reports(k1)) = 1
           /\ Cardinality(Members(k2)) = 1
           /\ Reports(k2) = {}

Classified(avg) ==
    IF avg <= 8 THEN "weekly"
    ELSE IF avg >= 9 /\ avg <= 35 THEN "monthly"
    ELSE IF avg >= 36 /\ avg <= 95 THEN "quarterly"
    ELSE "yearly"

\* C10: the frequency of every reported subscription is the class of the
\* average gap totalSpanDays / (count - 1) of its group: weekly up to 8,
\* monthly for 9..35, quarterly for 36..95, yearly from 96 on (so 8 is
\* weekly, 9 and 35 monthly, 36 and 95 quarterly, 96 yearly), and it is never
\* "unknown".
C10_FrequencyClassification ==
    detected =>
        \A n \in 1 .. Len(subscriptions) :
            LET avg == AverageGap(Key(subscriptions[n]))
            IN /\ subscriptions[n].Frequency = Classified(avg)
               /\ subscriptions[n].Frequency # "unknown"
               /\ avg = 8 => subscriptions[n].Frequency = "weekly"
               /\ avg \in {9, 35} => subscriptions[n].Frequency = "monthly"
               /\ avg \in {36, 95} => subscriptions[n].Frequency = "quarterly"
               /\ avg = 96 => subscriptions[n].Frequency = "yearly"

\* A reported group whose average gap is exactly 35 days.
C10_Witness ==
    /\ detected
    /\ Len(subscriptions) = 1
    /\ AverageGap(Key(subscriptions[1])) = 35
    /\ subscriptions[1].Frequency = "monthly"

Eligible(i) == ~transactions[i].Pending /\ transactions[i].Amount >= 0

EligiblePositions == {i \in 1 .. Len(transactions) : Eligible(i)}

\* The caller's list without its pending and negative transactions.
RECURSIVE KeptFrom(_)
KeptFrom(i) ==
    IF i > Len(transactions) THEN <<>>
    ELSE IF Eligible(i) THEN <<transactions[i]>> \o KeptFrom(i + 1)
    ELSE KeptFrom(i + 1)

Kept == KeptFrom(1)

\* C17: pending and negative transactions contribute to no group: the call
\* returns what it returns on the list without them, every subscription
\* carries the fields of an eligible transaction, and no subscription has a
\* negative amount.
C17_Filtering ==
    detected =>
        /\ \E order \in Orders(GroupKeys(Kept)), now \in Clock :
               subscriptions = DetectRecurringTransactions(Kept, order, now)
        /\ \A n \in 1 .. Len(subscriptions) :
               /\ subscriptions[n].Amount >= 0
               /\ \E i \in EligiblePositions :
                      /\ subscriptions[n].MerchantName = transactions[i].MerchantName
                      /\ subscriptions[n].Amount = transactions[i].Amount
                      /\ subscriptions[n].LastCharge = transactions[i].Date
                      /\ subscriptions[n].Category = transactions[i].Category

\* Two eligible charges on days 0 and 30 and a pending one on day 60: the
\* reported last charge is day 30.
C17_Witness ==
    /\ detected
    /\ Len(transactions) = 3
    /\ \E i \in 1 .. 3 : transactions[i].Pending /\ transactions[i].Date = 60
    /\ Cardinality(EligiblePositions) = 2
    /\ Len(subscriptions) = 1
    /\ subscriptions[1].LastCharge = 30

\* The whole number of cents nearest to an amount >= 0.
NearestCent(amount) ==
    CHOOSE c \in (amount \div 10) .. (amount \div 10 + 1) :
        10 * c - 5 <= amount /\ amount < 10 * c + 5

\* Positions i and j of the list were appended to the same group.
SameGroup(i, j) ==
    LET groups == Groups(transactions)
    IN \E k \in DOMAIN groups :
           LET ids == {groups[k][a].ID : a \in 1 .. Len(groups[k])}
           IN i \in ids /\ j \in ids

SameNameAndCents(i, j) ==
    /\ ToLower(transactions[i].MerchantName) = ToLower(transactions[j].MerchantName)
    /\ NearestCent(transactions[i].Amount) = NearestCent(transactions[j].Amount)

\* C18: two eligible transactions are in the same group exactly when their
\* merchant names are equal after lowercasing and their amounts show the
\* same number of cents; names differing in letter case only are grouped
\* together, amounts a cent apart never are.  So a list of two eligible
\* transactions yields a subscription exactly in that case.
C18_Grouping ==
    /\ \A i, j \in EligiblePositions :
           /\ SameGroup(i, j) <=> SameNameAndCents(i, j)
           /\ ( /\ transactions[i].MerchantName # transactions[j].MerchantName
                /\ ToLower(transactions[i].MerchantName)
                       = ToLower(transactions[j].MerchantName)
                /\ transactions[i].Amount = transactions[j].Amount )
                  => SameGroup(i, j)
           /\ ( \/ transactions[i].Amount - transactions[j].Amount >= 10
                \/ transactions[j].Amount - transactions[i].Amount >= 10 )
                  => ~SameGroup(i, j)
    /\ (detected /\ Cardinality(EligiblePositions) = 2) =>
           \A i, j \in EligiblePositions :
               i # j => (Len(subscriptions) = 1 <=> SameNameAndCents(i, j))

\* "Spotify" and "SPOTIFY" at 9.99 reported as one group, next to a charge
\* of 10.00 that stays out of it.
C18_Witness ==
    /\ detected
    /\ Cardinality(EligiblePositions) = 3
    /\ \E i, j, l \in EligiblePositions :
           /\ transactions[i].MerchantName = "Spotify"
           /\ transactions[j].MerchantName = "SPOTIFY"
           /\ transactions[i].Amount = 9990
           /\ transactions[j].Amount = 9990
           /\ SameGroup(i, j)
           /\ transactions[l].Amount = 10000
           /\ ~SameGroup(i, l)
    /\ Len(subscriptions) = 1

\* The dates of the members of the group of key k, latest first.
RECURSIVE DatesLatestFirst(_, _)
DatesLatestFirst(k, positions) ==
    IF positions = {} THEN <<>>
    ELSE LET p == CHOOSE i \in positions :
                      \A j \in positions : transactions[j].Date <= transactions[i].Date
         IN <<transactions[p].Date>> \o DatesLatestFirst(k, positions \ {p})

GapsOf(dates) == [i \in 1 .. Len(dates) - 1 |-> dates[i] - dates[i + 1]]

\* Every gap is within 5 days of the truncated mean of the gaps.
RegularGaps(gaps) ==
    LET avg == SumSeq(gaps) \div Len(gaps)
    IN \A i \in 1 .. Len(gaps) : gaps[i] - avg <= 5 /\ avg - gaps[i] <= 5

\* C19: a group of two or more eligible transactions is reported exactly when
\* every gap between date-consecutive transactions is within 5 days of the
\* average gap (sum of the gaps over their number, truncated).
C19_RecurrenceTest ==
    detected =>
        \A k \in GroupKeys(transactions) :
            Cardinality(Members(k)) >= 2 =>
                ( Reports(k) # {}
                  <=> RegularGaps(GapsOf(DatesLatestFirst(k, Members(k)))) )

\* A group of three whose gaps 9 and 0 are exactly 5 and 4 days off their
\* average 4, and is reported.
C19_Witness ==
    /\ detected
    /\ \E k \in GroupKeys(transactions) :
           /\ DatesLatestFirst(k, Members(k)) = <<104, 95, 95>>
           /\ Reports(k) # {}

\* C20: the next due date of every reported group is the date of its most
\* recent transaction plus (most recent date - oldest date) / (count - 1).
C20_NextDue ==
    detected =>
        \A n \in 1 .. Len(subscriptions) :
            LET k == Key(subscriptions[n])
            IN /\ subscriptions[n].LastCharge = LatestDate(k)
               /\ subscriptions[n].NextDue = LatestDate(k) + AverageGap(k)

\* Charges on days 95, 96 and 104: span 9, average 4, next due day 108.
C20_Witness ==
    /\ detected
    /\ Len(subscriptions) = 1
    /\ Cardinality(Members(Key(subscriptions[1]))) = 3
    /\ OldestDate(Key(subscriptions[1])) = 95
    /\ subscriptions[1].LastCharge = 104
    /\ subscriptions[1].NextDue = 108

\* The group of key k passes the recurrence test: it has two members or more
\* and its date-consecutive gaps are regular.
PassesRecurrenceTest(k) ==
    /\ Cardinality(Members(k)) >= 2
    /\ RegularGaps(GapsOf(DatesLatestFirst(k, Members(k))))

\* C21: exactly one subscription is returned for every group that passes the
\* recurrence test and none for any other group (so never two for one key of
\* lowercased merchant and amount), and its merchant name, amount, category
\* and last charge date are those of a transaction of the group that bears
\* the group's latest date.
C21_OneReportPerPassingGroup ==
    detected =>
        /\ \A n \in 1 .. Len(subscriptions) :
               Key(subscriptions[n]) \in GroupKeys(transactions)
        /\ \A k \in GroupKeys(transactions) :
               /\ Cardinality(Reports(k)) = IF PassesRecurrenceTest(k) THEN 1 ELSE 0
               /\ \A n \in Reports(k) :
                      \E i \in Members(k) :
                          /\ transactions[i].Date = LatestDate(k)
                          /\ subscriptions[n].MerchantName = transactions[i].MerchantName
                          /\ subscriptions[n].Amount = transactions[i].Amount
                          /\ subscriptions[n].Category = transactions[i].Category
                          /\ subscriptions[n].LastCharge = transactions[i].Date

\* A group of three whose most recent charge, placed in the middle of the
\* list, spells the merchant and the category unlike the two older ones; the
\* one subscription returned carries its spelling.
C21_Witness ==
    /\ detected
    /\ Len(transactions) = 3
    /\ transactions[1].MerchantName = "Spotify" /\ transactions[1].Date = 0
    /\ transactions[2].MerchantName = "SPOTIFY" /\ transactions[2].Date = 60
    /\ transactions[3].MerchantName = "Spotify" /\ transactions[3].Date = 30
    /\ Len(subscriptions) = 1
    /\ subscriptions[1].MerchantName = "SPOTIFY"
    /\ subscriptions[1].Category = <<"Service">>
    /\ subscriptions[1].LastCharge = 60

\* C22: a call of DetectRecurringTransactions writes to no element of the
\* caller's array, so the caller's list holds the same transactions in the
\* same order after the call as before it.
C22_InputNotMutated ==
    [][ /\ heap'[CallerArray] = heap[CallerArray]
        /\ transactions' = transactions ]_vars

\* The call has returned a subscription for a list given oldest first: the
\* group lies sorted latest first in an array of its own, and the caller's
\* array still has the oldest first.
C22_Witness ==
    /\ detected
    /\ Len(transactions) = 2
    /\ transactions[1].Date = 0 /\ transactions[2].Date = 30
    /\ heap[CallerArray] = transactions
    /\ Len(subscriptions) = 1
    /\ subscriptions[1].LastCharge = 30
    /\ \E a \in (DOMAIN heap) \ {CallerArray} :
           /\ Len(heap[a]) = 2
           /\ heap[a][1] = transactions[2]
           /\ heap[a][2] = transactions[1]

\* The lists that hold the transactions of s in some order.
Reorderings(s) ==
    {[i \in 1 .. Len(s) |-> s[o[i]]] : o \in Orders(1 .. Len(s))}

AsSet(subs) == {subs[n] : n \in 1 .. Len(subs)}

\* The sets of subscriptions a call on txns may return.
Outputs(txns) ==
    {AsSet(DetectRecurringTransactions(txns, order, now)) :
        order \in Orders(GroupKeys(txns)), now \in Clock}

\* What a subscription says of its group apart from the representative.
Projection(sub) ==
    [Key |-> Key(sub), Frequency |-> sub.Frequency,
     LastCharge |-> sub.LastCharge, NextDue |-> sub.NextDue]

\* C25 as stated: whatever the order of the list, the same set of
\* subscriptions is returned, equal in every field.
C25_OrderIndependence ==
    detected =>
        \A p \in Reorderings(transactions) :
            \A out \in Outputs(p) : out = AsSet(subscriptions)

\* C25, amended: whatever the order of the list, the same groups are reported
\* with the same key (lowercased merchant, amount to the cent), frequency,
\* last charge date and next due date; the merchant name, amount and category
\* of a subscription are those of one of the transactions of its group that
\* bear the last charge date.
C25_OrderIndependenceOfGroups ==
    detected =>
        \A p \in Reorderings(transactions) :
            \A out \in Outputs(p) :
                /\ {Projection(x) : x \in out}
                       = {Projection(x) : x \in AsSet(subscriptions)}
                /\ \A x \in out :
                       \E i \in Members(Key(x)) :
                           /\ transactions[i].Date = x.LastCharge
                           /\ transactions[i].MerchantName = x.MerchantName
                           /\ transactions[i].Amount = x.Amount
                           /\ transactions[i].Category = x.Category

\* Two charges of one day that differ in the letter case of the merchant
\* form a reported group.
C25_Witness ==
    /\ detected
    /\ Len(subscriptions) = 1
    /\ \E i, j \in 1 .. Len(transactions) :
           /\ transactions[i].MerchantName = "Spotify"
           /\ transactions[j].MerchantName = "SPOTIFY"
           /\ transactions[i].Date = transactions[j].Date
           /\ subscriptions[1].LastCharge = transactions[i].Date

NonIncreasing(sorted) ==
    \A i \in 1 .. Len(sorted) - 1 : sorted[i].Date >= sorted[i + 1].Date

\* C26: the sort of isRecurring leaves every group of two transactions or
\* more, whatever its order in the list, in non-increasing date order; so no
\* gap between consecutive transactions is negative, the last charge date of
\* a reported group is the latest date of the group, and its next due date
\* is not before its last charge date.
C26_SortedLatestFirst ==
    detected =>
        LET groups == Groups(transactions)
        IN \A k \in GroupKeys(transactions) :
               Len(groups[k]) >= 2 =>
                   LET sorted == SortByDate(groups[k])
                       intervals == Intervals(sorted)
                   IN /\ NonIncreasing(sorted)
                      /\ \A i \in 1 .. Len(intervals) : intervals[i] >= 0
                      /\ sorted[1].Date = LatestDate(k)
                      /\ \A n \in Reports(k) :
                             /\ subscriptions[n].LastCharge = LatestDate(k)
                             /\ subscriptions[n].NextDue >= subscriptions[n].LastCharge

\* A reported group listed oldest, latest, middle.
C26_Witness ==
    /\ detected
    /\ Len(transactions) = 3
    /\ transactions[1].Date = 0 /\ transactions[2].Date = 60
    /\ transactions[3].Date = 30
    /\ Len(subscriptions) = 1
    /\ subscriptions[1].LastCharge = 60
    /\ subscriptions[1].NextDue = 90

\* C27: for every group of two transactions or more, the average isRecurring
\* tests the gaps against (their sum over their number, truncated) is
\* totalSpanDays / (count - 1), the average of determineFrequency and
\* predictNextDue; a reported group is classified by it and its next due
\* date is that many days after its last charge.
C27_AveragesAgree ==
    detected =>
        LET groups == Groups(transactions)
        IN \A k \in GroupKeys(transactions) :
               Len(groups[k]) >= 2 =>
                   LET sorted == SortByDate(groups[k])
                       intervals == Intervals(sorted)
                       avgInterval == TruncDiv(SumIntervals(intervals), Len(intervals))
                   IN /\ avgInterval = AvgDays(sorted)
                      /\ avgInterval = AverageGap(k)
                      /\ \A n \in Reports(k) :
                             /\ subscriptions[n].Frequency = Classified(avgInterval)
                             /\ subscriptions[n].NextDue
                                    = subscriptions[n].LastCharge + avgInterval

\* A reported group with the gaps 8 and 1, whose mean 4.5 is truncated to 4.
C27_Witness ==
    /\ detected
    /\ \E k \in GroupKeys(transactions) :
           /\ DatesLatestFirst(k, Members(k)) = <<104, 96, 95>>
           /\ \E n \in Reports(k) :
                  /\ subscriptions[n].Frequency = "weekly"
                  /\ subscriptions[n].NextDue = 108

\* C23: a call on a list returns one sequence only: whatever order the range
\* over the group map takes, and whenever the call is made, the subscriptions
\* returned are the ones the first call returned, in the same order.
C23_SameSequenceOnEveryCall ==
    detected =>
        \A order \in Orders(GroupKeys(transactions)), now \in Clock :
            DetectRecurringTransactions(transactions, order, now) = subscriptions

\* The tables hold, for the year and the state of the request, what the demo
\* handler assumes: deduction 1,385,000, one unbounded federal bracket at
\* 2200 bps and, unless the request names no state, one unbounded state
\* bracket at 500 bps.
DemoTables ==
    /\ StdDeductionSingle(taxTablesFederal, estReq[1].year) = {1385000}
    /\ FederalBrackets(taxTablesFederal, estReq[1].year)
           = {<<[low |-> 0, high |-> 0, rate |-> 2200]>>}
    /\ estReq[1].state # "" =>
           StateBrackets(taxTablesState, estReq[1].year, estReq[1].state)
               = {<<[low |-> 0, high |-> 0, rate |-> 500]>>}

\* C28: on such tables the demo handler and EstimateTaxes answer every
\* request alike: either both reject it, or both return the same federal,
\* state, FICA, per-paycheck and term-net amounts.
C28_DemoEquivalent ==
    (EstCalled /\ demoRes # <<>> /\ DemoTables) =>
        IF estRes[1].err # <<>>
        THEN demoRes[1].status # 200
        ELSE /\ demoRes[1].status = 200
             /\ demoRes[1].federalCents = EstResult.FederalCents
             /\ demoRes[1].stateCents = EstResult.StateCents
             /\ demoRes[1].ficaCents = EstResult.FicaCents
             /\ demoRes[1].perPaycheckNetCents = EstResult.PerPaycheckNetCents
             /\ demoRes[1].termNetCents = EstResult.TermNetCents

\* The step adds no row to table subscriptions for a merchant and amount
\* that have a row already.
AddsNoSecondRow ==
    \A i \in Len(dbSubscriptions) + 1 .. Len(dbSubscriptions') :
        \A j \in 1 .. i - 1 :
            ~ ( /\ dbSubscriptions'[i].merchant = dbSubscriptions'[j].merchant
                /\ dbSubscriptions'[i].amount_cents
                       = dbSubscriptions'[j].amount_cents )

ReturnsAsAlone(c) ==
    IF c.kind = "estimate"
    THEN \A out \in EstimateTaxes(taxTablesFederal, taxTablesState,
                                  c.input.incomeCents, c.input.state,
                                  c.input.filingStatus, c.input.year,
                                  c.input.payFreq, c.input.termWeeks) :
             c.result.err = out.err /\ c.result.result = out.result
    ELSE \A order \in Orders(GroupKeys(c.input)), now \in Clock :
             c.result = DetectRecurringTransactions(c.input, order, now)

\* C24: however the calls of several goroutines interleave, every call that
\* has returned returned exactly the result it returns when run alone on its
\* input, and every step touches the position and the local variables of one
\* call only.
C24_CallsAreIsolated ==
    [][ /\ \A p \in 1 .. MaxCalls :
               calls'[p].pc = "done" => ReturnsAsAlone(calls'[p])
        /\ \E p \in 1 .. MaxCalls :
               \A q \in (1 .. MaxCalls) \ {p} :
                   calls'[q] = calls[q] /\ frames'[q] = frames[q] ]_vars

====
